---- MODULE Spec2Model ----
(***************************************************************************)
(* cbfs: locate the CBFS header through the footer pointer, walk the file   *)
(* table of the ROM region, list the names and/or extract one payload.      *)
(*                                                                          *)
(* The machine is scaled down: a byte holds ByteBits bits, a uint32_t is     *)
(* four such bytes, and the top of the address space (`end`) is one past the *)
(* largest uint32_t, as in the program (0x100000000 = 2^32).  Every          *)
(* uint32_t expression is reduced modulo UINT32_MOD where C reduces it.      *)
(***************************************************************************)
EXTENDS Integers, Sequences, FiniteSets, TLC

\* ---------------------------------------------------------------- bounds
ByteBits == 2
MaxFiles == 2
MaxArgs == 2

\* ------------------------------------------------------- machine widths
BYTE_MOD == 2 ^ ByteBits
UINT32_MOD == BYTE_MOD ^ 4
SIZE_MOD == UINT32_MOD * UINT32_MOD
INT32_MIN == 0 - (UINT32_MOD \div 2)

\* sizeof(struct cbfs_file): 8 + 4 * 4, the flexible filename[] adds nothing
SIZEOF_FILE == 24
\* sizeof(struct cbfs_header): 8 * 4
SIZEOF_HEADER == 32
\* uint64_t end = 0x100000000: one past the largest uint32_t
end == UINT32_MOD

Min(a, b) == IF a < b THEN a ELSE b
Max(a, b) == IF a > b THEN a ELSE b

\* a character constant, as a non-NUL byte of the scaled machine
Chr(c) == 1 + (c % (BYTE_MOD - 1))

\* byte k (0 = least significant) of the uint32_t v
ByteOf(v, k) == (v \div (BYTE_MOD ^ k)) % BYTE_MOD

\* the uint32_t a little-endian host reads from four bytes in memory order
HostWord(b0, b1, b2, b3) ==
    b0 + b1 * BYTE_MOD + b2 * BYTE_MOD ^ 2 + b3 * BYTE_MOD ^ 3

\* ntohl on a little-endian host: reverse the four bytes
ntohl(v) == HostWord(ByteOf(v, 3), ByteOf(v, 2), ByteOf(v, 1), ByteOf(v, 0))

\* #define CBFS_HEADER_MAGIC 0x4F524243, the bytes 'O' 'R' 'B' 'C'
CBFS_HEADER_MAGIC == HostWord(Chr(67), Chr(66), Chr(82), Chr(79))
\* #define CBFS_HEADER_VERSION2 0x31313132, the bytes '1' '1' '1' '2'
CBFS_HEADER_VERSION == HostWord(Chr(50), Chr(49), Chr(49), Chr(49))
\* #define CBFS_FILE_MAGIC "LARCHIVE"
CBFS_FILE_MAGIC ==
    << Chr(76), Chr(65), Chr(82), Chr(67), Chr(72), Chr(73), Chr(86), Chr(69) >>

\* bitwise and of two non-negative integers
RECURSIVE BitAnd(_, _)
BitAnd(a, b) ==
    IF a = 0 \/ b = 0 THEN 0
    ELSE (a % 2) * (b % 2) + 2 * BitAnd(a \div 2, b \div 2)

\* ~x on a uint32_t
BitNot32(x) == UINT32_MOD - 1 - x

\* x reduced to a uint32_t
U32(x) == ((x % UINT32_MOD) + UINT32_MOD) % UINT32_MOD

\* the value of a 4-byte two's complement int32_t
Signed32(v) == IF v >= UINT32_MOD \div 2 THEN v - UINT32_MOD ELSE v

\* ------------------------------------------------------------ ROM images
\* The physical memory below `end` is described by what an image builder
\* wrote into it: the footer pointer, the header, and the file records of
\* the table (struct cbfs_file, big-endian fields, the name after it).

NameA == << Chr(97) >>
NameAB == << Chr(97), Chr(98) >>

\* strtoul(s, NULL, 16) on a string of hexadecimal digits (given by value):
\* the digits are folded until the first character that is no digit
RECURSIVE StrToUL16From(_, _)
StrToUL16From(s, acc) ==
    IF s = << >> \/ Head(s) > 15 THEN acc
    ELSE StrToUL16From(Tail(s), acc * 16 + Head(s))
strtoul16(s) == StrToUL16From(s, 0)

\* the file types of the images, as the -t arguments that select them
TypeArg10 == << 1, 0 >>
TypeArg20 == << 2, 0 >>
TypeStage == strtoul16(TypeArg10)
TypeRaw == strtoul16(TypeArg20)

\* what a record of the table is built from: the bytes written after the
\* fixed part (the name, with its NUL when it has one) and the four fields
FileShapes ==
    { [name |-> NameA \o <<0>>, type |-> TypeStage, offset |-> 26, len |-> 3],
      [name |-> NameAB \o <<0>>, type |-> TypeRaw, offset |-> 28, len |-> 5],
      [name |-> NameA, type |-> TypeStage, offset |-> 25, len |-> 2],
      [name |-> NameAB \o <<0>>, type |-> TypeStage, offset |-> 16, len |-> 4],
      [name |-> NameA \o <<0>>, type |-> TypeRaw, offset |-> 0, len |-> 0],
      [name |-> NameA \o <<0>>, type |-> TypeRaw, offset |-> 32,
       len |-> UINT32_MOD - 6] }

\* (romsize, offset, align) of the headers the images carry
HeaderShapes ==
    { [romsize |-> 96, offset |-> 0, align |-> 8],
      [romsize |-> 64, offset |-> 16, align |-> 16] }

\* x rounded up to a multiple of align, over the integers
AlignUp(x, align) == ((x + align - 1) \div align) * align

\* the distance an image builder leaves between a record and the next one
LayoutStride(s, align) ==
    AlignUp(Max(s.offset + s.len, SIZEOF_FILE + Len(s.name)), align)

\* struct cbfs_file records laid out from address `at` on
RECURSIVE PlaceFiles(_, _, _)
PlaceFiles(shapes, at, align) ==
    IF shapes = << >> \/ at >= end THEN << >>
    ELSE << [at |-> at,
             magic |-> CBFS_FILE_MAGIC,
             len |-> Head(shapes).len,
             type |-> Head(shapes).type,
             attributes_offset |-> 0,
             offset |-> Head(shapes).offset,
             name |-> Head(shapes).name] >>
         \o PlaceFiles(Tail(shapes), at + LayoutStride(Head(shapes), align), align)

\* an image: footer pointer, struct cbfs_header, the table, the erased fill
MakeImage(h, magic, shapes) ==
    [delta |-> INT32_MIN,
     header |-> [magic |-> magic,
                 version |-> CBFS_HEADER_VERSION,
                 romsize |-> h.romsize,
                 bootblocksize |-> 0,
                 align |-> h.align,
                 offset |-> h.offset,
                 architecture |-> 0,
                 pad |-> 0],
     files |-> PlaceFiles(shapes, end - h.romsize + h.offset, h.align),
     fill |-> BYTE_MOD - 1]

SeqsUpTo(S, n) == UNION { [1..k -> S] : k \in 0..n }

Images ==
    { MakeImage(h, CBFS_HEADER_MAGIC, shapes) :
        h \in HeaderShapes, shapes \in SeqsUpTo(FileShapes, MaxFiles) }
    \cup { MakeImage(h, CBFS_HEADER_MAGIC - 1, << >>) : h \in HeaderShapes }

\* byte k of the struct cbfs_header as stored: big-endian fields
HeaderByte(h, k) ==
    LET fields == << h.magic, h.version, h.romsize, h.bootblocksize,
                     h.align, h.offset, h.architecture, h.pad >>
    IN ByteOf(fields[(k \div 4) + 1], 3 - (k % 4))

\* byte k of a record as stored: raw magic, big-endian fields, then the name
FileByte(f, k) ==
    IF k < 8 THEN f.magic[k + 1]
    ELSE IF k < SIZEOF_FILE
         THEN LET fields == << f.len, f.type, f.attributes_offset, f.offset >>
              IN ByteOf(fields[((k - 8) \div 4) + 1], 3 - (k % 4))
         ELSE f.name[k - SIZEOF_FILE + 1]

\* the payload bytes of an image are a pattern of their address
Pattern(a) == a % BYTE_MOD

\* the byte of physical memory at address a < end
Byte(img, a) ==
    LET hoff == end + img.delta
        heads == { i \in 1..Len(img.files) :
                     /\ img.files[i].at <= a
                     /\ a < img.files[i].at + SIZEOF_FILE + Len(img.files[i].name) }
        datas == { i \in 1..Len(img.files) :
                     /\ img.files[i].at + img.files[i].offset <= a
                     /\ a < img.files[i].at + img.files[i].offset + img.files[i].len }
    IN IF a >= end - 4 THEN ByteOf(U32(img.delta), a - (end - 4))
       ELSE IF hoff <= a /\ a < hoff + SIZEOF_HEADER
            THEN HeaderByte(img.header, a - hoff)
       ELSE IF heads # {}
            THEN LET i == CHOOSE i \in heads : \A j \in heads : i <= j
                 IN FileByte(img.files[i], a - img.files[i].at)
       ELSE IF datas # {} THEN Pattern(a)
       ELSE img.fill

\* ------------------------------------------------------------------ state
VARIABLES
    rom_image,      \* the physical memory below `end`
    beyond,         \* what lies after the mapped view
    pc,             \* position in main
    status,         \* "running", or how the process ended
    outcome,        \* which return statement (or signal) ended it
    verbose, do_list, do_read, do_type, cbfs_file_type, filename,
    header,         \* struct cbfs_header after ntohl
    align, off, rom,
    rom_view,       \* "none", or "mapped" once map_physical returned
    file,           \* struct cbfs_file of the current iteration, after ntohl
    wr_offset,      \* `offset` of the write loop
    listed,         \* the names given to printf("%s\n"): the first ListedCap
    written,        \* the bytes accepted by write(STDOUT_FILENO)
    decoded,        \* the offsets at which a record header was read
    read_end,       \* one past the highest address read through `rom`
    matched         \* a record passed the type filter and the name comparison

vars == << rom_image, beyond, pc, status, outcome, verbose, do_list, do_read,
           do_type, cbfs_file_type, filename, header, align, off, rom,
           rom_view, file, wr_offset, listed, written, decoded, read_end,
           matched >>

NoFile == [magic |-> << >>, len |-> 0, type |-> 0, attributes_offset |-> 0,
           offset |-> 0]
NoHeader == [magic |-> 0, version |-> 0, romsize |-> 0, bootblocksize |-> 0,
             align |-> 0, offset |-> 0, architecture |-> 0]

\* Reading past the end of the mapping is undefined: the pages after it are
\* not mapped (the read faults) or belong to another mapping (zeros, or
\* bytes that are all ones)
\* how many lines of the listing the model keeps: more than a table holds
ListedCap == MaxFiles + 2

BeyondKinds == { "unmapped", "zeros", "ones" }

Init ==
    /\ rom_image \in Images
    /\ beyond \in BeyondKinds
    /\ pc = "start"
    /\ status = "running"
    /\ outcome = "none"
    /\ verbose = 0
    /\ do_list = 0
    /\ do_read = 0
    /\ do_type = 0
    /\ cbfs_file_type = 0
    /\ filename = << >>
    /\ header = NoHeader
    /\ align = 0
    /\ off = 0
    /\ rom = 0
    /\ rom_view = "none"
    /\ file = NoFile
    /\ wr_offset = 0
    /\ listed = << >>
    /\ written = << >>
    /\ decoded = {}
    /\ read_end = 0
    /\ matched = FALSE

\* --------------------------------------------------------- option parsing
\* The command line after argv[0], one element per option (with its
\* argument) or positional argument.  "x" is an option getopt does not know.
ArgTokens ==
    { [opt |-> "v", arg |-> << >>], [opt |-> "l", arg |-> << >>],
      [opt |-> "r", arg |-> NameA], [opt |-> "r", arg |-> NameAB],
      [opt |-> "t", arg |-> TypeArg10], [opt |-> "t", arg |-> TypeArg20],
      [opt |-> "h", arg |-> << >>], [opt |-> "x", arg |-> << >>],
      [opt |-> "file", arg |-> << >>] }

\* getopt_long(argc, argv, "h?vlr:t:", long_options, NULL) on one option:
\* the option character, or '?' for an option it does not recognise
getopt_long(a) ==
    IF a.opt \in { "h", "?", "v", "l", "r", "t" } THEN a.opt ELSE "?"

\* the while/switch over the options; positional arguments are permuted to
\* the end by getopt and counted in `excess`
RECURSIVE OptionLoop(_, _)
OptionLoop(args, c) ==
    IF args = << >> THEN c
    ELSE LET a == Head(args)
             opt == getopt_long(a)
         IN IF a.opt = "file"
            THEN OptionLoop(Tail(args), [c EXCEPT !.excess = @ + 1])
            ELSE CASE opt = "v" ->
                      OptionLoop(Tail(args), [c EXCEPT !.verbose = @ + 1])
                   [] opt = "l" ->
                      OptionLoop(Tail(args), [c EXCEPT !.do_list = 1])
                   [] opt = "r" ->
                      OptionLoop(Tail(args),
                                 [c EXCEPT !.do_read = 1, !.filename = a.arg])
                   [] opt = "t" ->
                      OptionLoop(Tail(args),
                                 [c EXCEPT !.do_type = 1,
                                           !.cbfs_file_type = U32(strtoul16(a.arg))])
                   [] opt = "?" \/ opt = "h" ->
                      [c EXCEPT !.ret = "EXIT_SUCCESS",
                                !.why = IF a.opt \in { "h", "?" }
                                        THEN "Help" ELSE "UnknownOption"]
                   [] OTHER ->
                      [c EXCEPT !.ret = "EXIT_FAILURE", !.why = "UnknownOption"]

\* lines 68-119 of main: the exit it takes, or "none" with the options set
ParseOptions(args) ==
    LET c0 == [verbose |-> 0, do_list |-> 0, do_read |-> 0, do_type |-> 0,
               cbfs_file_type |-> 0, filename |-> << >>, excess |-> 0,
               ret |-> "none", why |-> "none"]
        c == OptionLoop(args, c0)
    IN IF Len(args) + 1 <= 1
       THEN [c0 EXCEPT !.ret = "EXIT_FAILURE", !.why = "NoArguments"]
       ELSE IF c.ret # "none" THEN c
       ELSE IF c.do_list = 0 /\ c.do_read = 0
            THEN [c EXCEPT !.ret = "EXIT_FAILURE", !.why = "NoOperation"]
       ELSE IF c.excess # 0
            THEN [c EXCEPT !.ret = "EXIT_FAILURE", !.why = "ExcessArguments"]
       ELSE c

\* what main can make of a command line of at most MaxArgs elements
CommandLines == SeqsUpTo(ArgTokens, MaxArgs)
ParsedCommandLines == { ParseOptions(args) : args \in CommandLines }

ParseArgs ==
    /\ pc = "start"
    /\ \E c \in ParsedCommandLines :
             /\ verbose' = c.verbose
             /\ do_list' = c.do_list
             /\ do_read' = c.do_read
             /\ do_type' = c.do_type
             /\ cbfs_file_type' = c.cbfs_file_type
             /\ filename' = c.filename
             /\ status' = IF c.ret = "none" THEN "running" ELSE c.ret
             /\ outcome' = c.why
             /\ pc' = IF c.ret = "none" THEN "locate" ELSE "exit"
    /\ UNCHANGED << rom_image, beyond, header, align, off, rom, rom_view, file,
                    wr_offset, listed, written, decoded, read_end, matched >>

\* ---------------------------------------------------------- memory reads
\* copy_physical(addr, len, dest): the byte it copies from physical address a
PhysByte(a) == IF a < end THEN Byte(rom_image, a) ELSE 0

\* map_physical(addr, len): a read-only view of [addr, addr + len); the
\* pointer it returns is identified with the physical address it maps
map_physical(addr, len) == addr

\* a byte read through the pointer `rom`; past the view it is what lies there
ViewByte(a) ==
    IF a < end THEN Byte(rom_image, a)
    ELSE IF beyond = "ones" THEN BYTE_MOD - 1 ELSE 0

\* the uint32_t the host holds after copying four bytes from address a
PhysWord(a) == HostWord(PhysByte(a), PhysByte(a + 1), PhysByte(a + 2), PhysByte(a + 3))
ViewWord(a) == HostWord(ViewByte(a), ViewByte(a + 1), ViewByte(a + 2), ViewByte(a + 3))

\* the n bytes at address a
Window(a, n) == [k \in 1..n |-> ViewByte(a + k - 1)]

\* the NUL-terminated string at address a, as far as the view holds it
RECURSIVE CStr(_)
CStr(a) ==
    IF a >= end \/ Byte(rom_image, a) = 0 THEN << >>
    ELSE << Byte(rom_image, a) >> \o CStr(a + 1)

\* character i (from 1) of a string constant: its bytes, then the NUL
CharAt(s, i) == IF i <= Len(s) THEN s[i] ELSE 0

\* strncmp(s1, s2, n): whether it returns 0, and how many characters of s1
\* it read; i characters have compared equal so far
RECURSIVE StrNCmpFrom(_, _, _, _)
StrNCmpFrom(s1, s2, n, i) ==
    IF i >= n THEN [eq |-> TRUE, reads |-> i]
    ELSE IF CharAt(s1, i + 1) # CharAt(s2, i + 1)
         THEN [eq |-> FALSE, reads |-> i + 1]
    ELSE IF CharAt(s1, i + 1) = 0 THEN [eq |-> TRUE, reads |-> i + 1]
    ELSE StrNCmpFrom(s1, s2, n, i + 1)
strncmp(s1, s2, n) == StrNCmpFrom(s1, s2, n, 0)

\* ------------------------------------------------------- header location
\* lines 138-147: copy_physical(header_off, sizeof(header), &header) and
\* the seven ntohl
ReadHeader(header_off) ==
    [magic |-> ntohl(PhysWord(header_off)),
     version |-> ntohl(PhysWord(header_off + 4)),
     romsize |-> ntohl(PhysWord(header_off + 8)),
     bootblocksize |-> ntohl(PhysWord(header_off + 12)),
     align |-> ntohl(PhysWord(header_off + 16)),
     offset |-> ntohl(PhysWord(header_off + 20)),
     architecture |-> ntohl(PhysWord(header_off + 24))]

\* lines 121-169: footer pointer (native byte order, signed), header, magic
\* check, start of the table, map_physical
HeaderLocate ==
    /\ pc = "locate"
    /\ \E h \in { ReadHeader((end + Signed32(PhysWord(end - 4)) + SIZE_MOD) % SIZE_MOD) } :
       LET start == (end - h.romsize + h.offset + SIZE_MOD) % SIZE_MOD
       IN /\ header' = h
          /\ IF h.magic # CBFS_HEADER_MAGIC
             THEN /\ status' = "EXIT_FAILURE"
                  /\ outcome' = "HeaderNotFound"
                  /\ pc' = "exit"
                  /\ UNCHANGED << align, off, rom, rom_view >>
             ELSE /\ align' = h.align
                  /\ off' = start
                  /\ rom' = map_physical(start, end - start)
                  /\ rom_view' = "mapped"
                  /\ pc' = "while"
                  /\ UNCHANGED << status, outcome >>
    /\ UNCHANGED << rom_image, beyond, verbose, do_list, do_read, do_type,
                    cbfs_file_type, filename, file, wr_offset, listed, written,
                    decoded, read_end, matched >>

\* ------------------------------------------------------------ table walk
\* line 170: while (off < end)
LoopTest ==
    /\ pc = "while"
    /\ pc' = IF off < end THEN "body" ELSE "after"
    /\ UNCHANGED << rom_image, beyond, status, outcome, verbose, do_list,
                    do_read, do_type, cbfs_file_type, filename, header, align,
                    off, rom, rom_view, file, wr_offset, listed, written,
                    decoded, read_end, matched >>

\* lines 174-180: memcpy(&file, rom, sizeof(file)) and the four ntohl
DecodeFile(p) ==
    [magic |-> Window(p, 8),
     len |-> ntohl(ViewWord(p + 8)),
     type |-> ntohl(ViewWord(p + 12)),
     attributes_offset |-> ntohl(ViewWord(p + 16)),
     offset |-> ntohl(ViewWord(p + 20))]

\* line 190: the record carries the file magic
MagicMatches(f) == strncmp(f.magic, CBFS_FILE_MAGIC, 8).eq

\* line 194: size_t name_size = file.offset - sizeof(file)
NameSize(f) == (f.offset - SIZEOF_FILE + SIZE_MOD) % SIZE_MOD

\* the type filter left out
TypePassesUnfiltered(f) == TRUE

\* lines 202 and 207: (!do_type || (do_type && file.type == cbfs_file_type))
TypePasses(f) == do_type = 0 \/ (do_type # 0 /\ f.type = cbfs_file_type)

\* line 208: strncmp(name, filename, name_size), on the bytes at `name`
NameCompare(name, f) ==
    strncmp(Window(name, Min(NameSize(f), Len(filename) + 1)), filename,
            NameSize(f))

\* the bound check done in uint32_t
ExtendsBeyondRom32(file_off, len) == U32(file_off + len) > end

\* line 215: file_off + file.len > end, in uint64_t
ExtendsBeyondRom(file_off, len) == (file_off + len) % SIZE_MOD > end

\* line 245: (align + (file.offset + file.len) - 1) & (~(align-1)), uint32_t
Inc(al, f) ==
    BitAnd(U32(al + U32(f.offset + f.len) - 1), BitNot32(U32(al - 1)))

\* lines 171-253: one iteration of the loop, up to the write loop
WalkBody ==
    /\ pc = "body"
    /\ \E f \in { DecodeFile(rom) }, str \in { CStr(rom + SIZEOF_FILE) } :
       \E cmp \in { NameCompare(rom + SIZEOF_FILE, f) } :
       LET name == rom + SIZEOF_FILE
           str_end == name + Len(str) + 1
           pass == TypePasses(f)
           prints == verbose # 0 \/ (do_list # 0 /\ pass)
           compares == do_read # 0 /\ pass
           hdr_fault == rom + SIZEOF_FILE > end /\ beyond = "unmapped"
           str_fault == prints /\ str_end > end /\ beyond # "zeros"
           cmp_fault == compares /\ name + cmp.reads > end /\ beyond = "unmapped"
           file_off == (off + f.offset) % SIZE_MOD
           inc == Inc(align, f)
           reads == { rom + SIZEOF_FILE }
                    \cup (IF MagicMatches(f) /\ prints THEN { str_end } ELSE {})
                    \cup (IF MagicMatches(f) /\ compares /\ ~str_fault
                          THEN { name + cmp.reads } ELSE {})
           hi == CHOOSE x \in reads : \A y \in reads : y <= x
       IN /\ read_end' = Max(read_end, hi)
          /\ decoded' = decoded \cup { off }
          /\ IF hdr_fault
             THEN /\ status' = "SIGSEGV"
                  /\ outcome' = "Segfault"
                  /\ pc' = "exit"
                  /\ UNCHANGED << file, listed, matched, wr_offset, off, rom >>
             ELSE IF ~MagicMatches(f)
             THEN /\ file' = f
                  /\ pc' = "after"
                  /\ UNCHANGED << status, outcome, listed, matched, wr_offset,
                                  off, rom >>
             ELSE IF str_fault
             THEN /\ file' = f
                  /\ status' = "SIGSEGV"
                  /\ outcome' = "Segfault"
                  /\ pc' = "exit"
                  /\ UNCHANGED << listed, matched, wr_offset, off, rom >>
             ELSE /\ file' = f
                  /\ listed' = IF do_list # 0 /\ pass /\ Len(listed) < ListedCap
                               THEN Append(listed, str) ELSE listed
                  /\ IF cmp_fault
                     THEN /\ status' = "SIGSEGV"
                          /\ outcome' = "Segfault"
                          /\ pc' = "exit"
                          /\ UNCHANGED << matched, wr_offset, off, rom >>
                     ELSE IF compares /\ cmp.eq
                     THEN /\ matched' = TRUE
                          /\ wr_offset' = 0
                          /\ UNCHANGED << off, rom >>
                          /\ IF ExtendsBeyondRom(file_off, f.len)
                             THEN /\ status' = "EXIT_FAILURE"
                                  /\ outcome' = "TruncatedFile"
                                  /\ pc' = "exit"
                             ELSE /\ pc' = "write"
                                  /\ UNCHANGED << status, outcome >>
                     ELSE /\ off' = (off + inc) % SIZE_MOD
                          /\ rom' = rom + inc
                          /\ pc' = "while"
                          /\ UNCHANGED << status, outcome, matched, wr_offset >>
    /\ UNCHANGED << rom_image, beyond, verbose, do_list, do_read, do_type,
                    cbfs_file_type, filename, header, align, rom_view, written >>

\* line 228: if (rc <= 0)
WriteFailed(rc) == rc <= 0

\* the write loop advancing by one byte per call
NextWriteOffsetByOne(offset, rc) == offset + 1

\* line 234: offset += rc
NextWriteOffset(offset, rc) == offset + rc

\* lines 221-235: one call of write(STDOUT_FILENO, file_data + offset, ...)

WriteStep ==
    /\ pc = "write"
    /\ wr_offset < file.len
    /\ \E rc \in (0 - 1)..(file.len - wr_offset) :
          IF WriteFailed(rc)
          THEN /\ status' = "EXIT_FAILURE"
               /\ outcome' = "WriteFailure"
               /\ pc' = "exit"
               /\ UNCHANGED << written, wr_offset >>
          ELSE /\ written' = written \o Window(rom + file.offset + wr_offset, rc)
               /\ wr_offset' = NextWriteOffset(wr_offset, rc)
               /\ UNCHANGED << status, outcome, pc >>
    /\ UNCHANGED << rom_image, beyond, verbose, do_list, do_read, do_type,
                    cbfs_file_type, filename, header, align, off, rom, rom_view,
                    file, listed, decoded, read_end, matched >>

\* lines 237-242: the write loop is over: do_read++; break
WriteDone ==
    /\ pc = "write"
    /\ ~(wr_offset < file.len)
    /\ do_read' = do_read + 1
    /\ pc' = "after"
    /\ UNCHANGED << rom_image, beyond, status, outcome, verbose, do_list,
                    do_type, cbfs_file_type, filename, header, align, off, rom,
                    rom_view, file, wr_offset, listed, written, decoded,
                    read_end, matched >>

\* the test made on any non-zero do_read
TargetMissingWhenever(dr) == dr >= 1

\* line 256: if (do_read == 1)
TargetMissing(dr) == dr = 1

\* lines 256-261: after the loop
Finish ==
    /\ pc = "after"
    /\ IF TargetMissing(do_read)
       THEN status' = "EXIT_FAILURE" /\ outcome' = "TargetNotFound"
       ELSE status' = "EXIT_SUCCESS" /\ outcome' = "Completed"
    /\ pc' = "exit"
    /\ UNCHANGED << rom_image, beyond, verbose, do_list, do_read, do_type,
                    cbfs_file_type, filename, header, align, off, rom, rom_view,
                    file, wr_offset, listed, written, decoded, read_end,
                    matched >>

Next ==
    \/ ParseArgs
    \/ HeaderLocate
    \/ LoopTest
    \/ WalkBody
    \/ WriteStep
    \/ WriteDone
    \/ Finish

Spec == Init /\ [][Next]_vars

\* The process is scheduled until it exits: every enabled step is taken.
\* Behaviours are checked on the images whose table has at most one record.
SingleRecordInit == Init /\ Len(rom_image.files) <= 1
FairSpec == SingleRecordInit /\ [][Next]_vars /\ WF_vars(Next)

\* ---------------------------------------------- the table, as it was built
\* What the claims compare the walk with: the records of the image taken
\* from its description, not from the bytes the walk decodes.

\* where the table starts: end - romsize + offset of the header written
TableStart(img) == end - img.header.romsize + img.header.offset

\* the name of a record: its name bytes up to the NUL
RECURSIVE UpToNul(_)
UpToNul(s) ==
    IF s = << >> \/ Head(s) = 0 THEN << >> ELSE << Head(s) >> \o UpToNul(Tail(s))

\* the bytes of a record's payload, in order
PayloadOf(img, f) == [k \in 1..f.len |-> Byte(img, f.at + f.offset + k - 1)]

\* Each record has the file magic, a NUL-terminated name inside its name
\* capacity and a payload inside the region; the records lie at the aligned
\* strides from the start of the table; after the last one comes the end of
\* the region or a sentinel: a whole record header inside the region whose
\* eight magic bytes are not the file magic.
WellFormedTable(img) ==
    LET fs == img.files
        n == Len(fs)
        al == img.header.align
        after == IF n = 0 THEN TableStart(img)
                 ELSE fs[n].at + AlignUp(fs[n].offset + fs[n].len, al)
    IN /\ img.header.magic = CBFS_HEADER_MAGIC
       /\ \A i \in 1..n :
            /\ fs[i].magic = CBFS_FILE_MAGIC
            /\ fs[i].offset >= SIZEOF_FILE
            /\ Len(fs[i].name) <= fs[i].offset - SIZEOF_FILE
            /\ \E k \in 1..Len(fs[i].name) : fs[i].name[k] = 0
            /\ fs[i].at + fs[i].offset <= end - 4
            /\ fs[i].at + fs[i].offset + fs[i].len <= end
            /\ fs[i].at = IF i = 1 THEN TableStart(img)
                          ELSE fs[i - 1].at
                               + AlignUp(fs[i - 1].offset + fs[i - 1].len, al)
       /\ \/ after >= end
          \/ /\ after + SIZEOF_FILE <= end
             /\ [k \in 1..8 |-> Byte(img, after + k - 1)] # CBFS_FILE_MAGIC

\* no type filter was asked for, or the record has the type asked for
KeptByFilter(f) == do_type = 0 \/ f.type = cbfs_file_type

\* the names of the records among the first k that the type filter keeps
RECURSIVE NamesOf(_, _)
NamesOf(fs, k) ==
    IF k = 0 THEN << >>
    ELSE NamesOf(fs, k - 1)
         \o (IF KeptByFilter(fs[k]) THEN << UpToNul(fs[k].name) >> ELSE << >>)

\* the records that the type filter keeps and that carry the requested name
Selectable(img) ==
    { i \in 1..Len(img.files) :
        KeptByFilter(img.files[i]) /\ UpToNul(img.files[i].name) = filename }

\* the first of them in table order, or 0
FirstSelectable(img) ==
    IF Selectable(img) = {} THEN 0
    ELSE CHOOSE i \in Selectable(img) : \A j \in Selectable(img) : i <= j

ReadMode == do_read # 0
ListMode == do_list # 0
Exited == pc = "exit"

\* ------------------------------------------------------------------ claims

\* C1: every iteration that continues the walk advances `off` and `rom` by
\* the same inc, and inc is a positive multiple of header.align that is at
\* least file.offset + file.len.
C1_AdvanceIsAlignedStride ==
    [][(pc = "body" /\ pc' = "while") =>
          /\ off' - off > 0
          /\ (off' - off) % header.align = 0
          /\ off' - off >= file'.offset + file'.len
          /\ rom' - rom = off' - off]_vars

\* C2: every read through `rom` lies inside the mapped view [start, end).
C2_ReadsStayInView == read_end <= end

\* C3: when the selected record's payload extends past the ROM end, the
\* process ends with TruncatedFile, exit status 1, and nothing was written.
C3_TruncatedFile ==
    /\ [][(~matched /\ matched' /\ off + file'.offset + file'.len > end) =>
             /\ outcome' = "TruncatedFile"
             /\ status' = "EXIT_FAILURE"
             /\ pc' = "exit"
             /\ written' = << >>]_vars
    /\ [](outcome = "TruncatedFile" =>
             status = "EXIT_FAILURE" /\ written = << >> /\ Exited)

C3_Witness ==
    /\ outcome = "TruncatedFile"
    /\ off + file.offset <= end
    /\ off + file.offset + file.len > end

\* C4: in read mode the process ends TargetNotFound (exit 1) exactly when
\* the walk finished without a record passing the type filter and the name
\* comparison; a match whose payload was written ends Completed, exit 0.
C4_TargetNotFound ==
    /\ (Exited /\ ReadMode /\ outcome \in { "TargetNotFound", "Completed" }) =>
          /\ (outcome = "TargetNotFound") <=> ~matched
          /\ outcome = "TargetNotFound" => status = "EXIT_FAILURE"
          /\ outcome = "Completed" =>
                status = "EXIT_SUCCESS" /\ Len(written) = file.len
    /\ (Exited /\ matched) =>
          outcome \in { "Completed", "TruncatedFile", "WriteFailure" }

\* a record carries the requested name but not the requested type
C4_Witness ==
    /\ outcome = "TargetNotFound"
    /\ do_type # 0
    /\ \E i \in 1..Len(rom_image.files) :
          /\ UpToNul(rom_image.files[i].name) = filename
          /\ rom_image.files[i].type # cbfs_file_type
          /\ rom_image.files[i].at \in decoded

\* C5: the output receives exactly file.len bytes, the payload in order,
\* under every sequence of partial writes; a write that reports a
\* non-positive count ends with WriteFailure, exit 1; after the match nothing
\* more is decoded or listed; the record extracted is the first in table
\* order that passes the type filter and carries the name.
C5_Extraction ==
    /\ [](pc = "write" =>
             /\ wr_offset <= file.len
             /\ written = Window(off + file.offset, wr_offset))
    /\ []((Exited /\ outcome = "Completed" /\ matched) =>
             /\ Len(written) = file.len
             /\ written = Window(off + file.offset, file.len)
             /\ off + file.offset + file.len <= end)
    /\ []((Exited /\ outcome = "Completed" /\ matched
           /\ WellFormedTable(rom_image)) =>
             /\ FirstSelectable(rom_image) # 0
             /\ off = rom_image.files[FirstSelectable(rom_image)].at
             /\ written = PayloadOf(rom_image,
                                    rom_image.files[FirstSelectable(rom_image)]))
    /\ [][(pc = "write" /\ wr_offset < file.len) =>
             \/ /\ wr_offset' > wr_offset
                /\ Len(written') = Len(written) + (wr_offset' - wr_offset)
                /\ status' = "running"
             \/ /\ outcome' = "WriteFailure"
                /\ status' = "EXIT_FAILURE"
                /\ written' = written]_vars
    /\ [](outcome = "WriteFailure" => status = "EXIT_FAILURE" /\ Exited)
    /\ [][matched =>
             decoded' = decoded /\ listed' = listed /\ off' = off
             /\ file' = file]_vars

\* the payload went out in more than one write
C5_Witness ==
    /\ pc = "write"
    /\ 0 < wr_offset
    /\ wr_offset < file.len
    /\ Len(rom_image.files) > 1
    /\ off = rom_image.files[2].at

\* C6 as stated: in every mode that lists, the listing is the names of all
\* the records that pass the type filter, in table order.
C6_ListsWholeTableInEveryMode ==
    (Exited /\ ListMode /\ WellFormedTable(rom_image)
     /\ outcome \in { "Completed", "TargetNotFound" }) =>
        listed = NamesOf(rom_image.files, Len(rom_image.files))

\* C6, amended: that holds in list mode alone; together with read mode the
\* listing stops with the first record selected for extraction.
C6_Listing ==
    (Exited /\ ListMode /\ rom_view = "mapped" /\ WellFormedTable(rom_image)) =>
        listed = NamesOf(rom_image.files,
                         IF ReadMode /\ FirstSelectable(rom_image) # 0
                         THEN FirstSelectable(rom_image)
                         ELSE Len(rom_image.files))

\* two records, a type filter that keeps one of them, list mode alone
C6_Witness ==
    /\ Exited
    /\ outcome = "Completed"
    /\ ListMode
    /\ ~ReadMode
    /\ do_type # 0
    /\ WellFormedTable(rom_image)
    /\ Len(rom_image.files) = 2
    /\ Len(listed) = 1

\* C7: a record that passes the type filter is selected exactly when the
\* target and the candidate name are equal as NUL-terminated strings over at
\* most file.offset - 24 bytes (no byte is compared when that is not
\* positive).
C7_SelectedIffEqualWithinCapacity ==
    [][(pc = "body" /\ ReadMode /\ outcome' # "Segfault"
        /\ MagicMatches(file') /\ TypePasses(file')) =>
          (matched' <=>
             strncmp(Window(rom + SIZEOF_FILE,
                            Max(0, Min(file'.offset - SIZEOF_FILE,
                                       Len(filename) + 1))),
                     filename,
                     Max(0, file'.offset - SIZEOF_FILE)).eq)]_vars

\* C8: the walk always terminates.
C8_Terminates == <>Exited

\* C9: no terminal state is reached with the ROM view still held.
C9_ViewReleasedAtExit == Exited => rom_view # "mapped"

\* C10: every failure detected before the walk ends with exit status 1 and
\* nothing decoded or written; only the help options end early with 0.
C10_EarlyFailuresExitOne ==
    /\ outcome \in { "NoArguments", "NoOperation", "ExcessArguments",
                     "UnknownOption", "HeaderNotFound" } =>
          /\ status = "EXIT_FAILURE"
          /\ decoded = {}
          /\ written = << >>
          /\ listed = << >>
    /\ outcome = "Help" => status = "EXIT_SUCCESS"

====
